---- MODULE Spec2Model ----
(***************************************************************************)
(* Perievent analysis of fiberphotopy/analysis.py: RatSession._sample,     *)
(* RatSession.analyze_perievent with the session's analyses cache,         *)
(* RatSession.update_window and Analysis.smooth.                           *)
(*                                                                         *)
(* Representation.  Times are integers (ticks).  A numpy array is a        *)
(* sequence; Python's 0-based indices are kept as values, so element i of  *)
(* a Python array is element i+1 of the sequence.  The signal values of a  *)
(* recording are represented by the recording sample they come from (the   *)
(* 0-based row of the recording), so that a slice states which samples it  *)
(* holds; an element-wise transform of an array (z-scores) keeps the       *)
(* samples of its argument.                                                *)
(***************************************************************************)
EXTENDS Integers, Sequences, FiniteSets, TLC

VARIABLES
    fiber,           \* self.fiber: the time array of every recording of the session
    default_window,  \* self.default_window
    analyzable_events,   \* self.analyzable_events
    recorded_intervals,  \* self.recorded_intervals
    analyses,        \* self.analyses: the cache, key string -> Analysis object
    nextId,          \* identity of the next Analysis object constructed
    last,            \* the last analyze_perievent call: arguments and outcome
    history,         \* (rec, event time, window) -> ids of the calls that returned a result for it
    sampled,         \* the last direct _sample call: arguments and returned triple
    smoothed         \* the last Analysis.smooth call: receiver, arguments and outcome

vars ==
    <<fiber, default_window, analyzable_events, recorded_intervals, analyses,
      nextId, last, history, sampled, smoothed>>

----------------------------------------------------------------------------
(* Bounds of the model.                                                    *)

MaxTick == 5       \* time values of a directly sampled array lie in 0..MaxTick
MaxWin == 3        \* pre and post durations lie in 0..MaxWin
MaxLen == 7        \* samples in the first recording of the session
MaxCalls == 2      \* Analysis objects constructed in one behaviour
MaxSmoothWin == 6  \* integer smoothing windows: 1..MaxSmoothWin
MaxRate == 8       \* sampling rates of a smoothed Analysis: 1..MaxRate (Hz)
MaxData == 7       \* length of a smoothed series: 1..MaxData

----------------------------------------------------------------------------
(* Python and numpy helpers.                                               *)

Abs(x) == IF x < 0 THEN -x ELSE x

SetMin(S) == CHOOSE m \in S : \A x \in S : m <= x

SetMax(S) == CHOOSE m \in S : \A x \in S : m >= x

\* arr[lo:hi] for 0 <= lo, 0 <= hi
PySlice(arr, lo, hi) ==
    SubSeq(arr, lo + 1, IF hi < Len(arr) THEN hi ELSE Len(arr))

\* arr[lo:]
PyFrom(arr, lo) == SubSeq(arr, lo + 1, Len(arr))

\* math.ceil(num / den) for den > 0
Ceil(num, den) == -((-num) \div den)

\* np.where(abs(time_array - target) == min(abs(time_array - target)))[0],
\* as the set of 0-based indices
Nearest(time_array, target) ==
    LET d == [i \in 1..Len(time_array) |-> Abs(time_array[i] - target)]
        m == SetMin({d[i] : i \in 1..Len(time_array)})
    IN  {i - 1 : i \in {j \in 1..Len(time_array) : d[j] = m}}

\* _sample with the end target on the wrong side of the event
sample_end_before(time_array, event_time, window) ==
    LET start == event_time - window[1]
        end   == event_time - window[2]
    IN  <<SetMin(Nearest(time_array, start)),
          SetMin(Nearest(time_array, event_time)),
          SetMax(Nearest(time_array, end))>>

\* _sample taking the first occurrence at the end boundary too
sample_end_first(time_array, event_time, window) ==
    LET start == event_time - window[1]
        end   == event_time + window[2]
    IN  <<SetMin(Nearest(time_array, start)),
          SetMin(Nearest(time_array, event_time)),
          SetMin(Nearest(time_array, end))>>

\* RatSession._sample: (start_idx, event_idx, end_idx)
_sample(time_array, event_time, window) ==
    LET start == event_time - window[1]
        end   == event_time + window[2]
    IN  <<SetMin(Nearest(time_array, start)),
          SetMin(Nearest(time_array, event_time)),
          SetMax(Nearest(time_array, end))>>

----------------------------------------------------------------------------
(* The fiber-recording collaborator (fiber_data.FiberData).                *)

\* a recording sampled every `step` ticks from `first`
TimeArray(n, first, step) == [i \in 1..n |-> first + (i - 1) * step]

\* self.fiber._find_rec(event_time): the recordings whose time span contains
\* the timestamp, in recording order (empty when there is none)
_find_rec(recordings, event_time) ==
    LET hit(r) == /\ recordings[r][1] <= event_time
                  /\ event_time <= recordings[r][Len(recordings[r])]
        F[r \in 0..Len(recordings)] ==
            IF r = 0 THEN <<>>
            ELSE IF hit(r) THEN Append(F[r - 1], r) ELSE F[r - 1]
    IN  F[Len(recordings)]

\* self.fiber.norm(rec=rec, method=method): one row per sample of the
\* recording, the time in column 0 and the sample's signal and control
norm_rows(recordings, rec, method) ==
    [i \in 1..Len(recordings[rec]) |->
        [t |-> recordings[rec][i], sample |-> i - 1]]

\* column 0 of an array of rows
TimeColumn(rows) == [i \in 1..Len(rows) |-> rows[i].t]

\* a signal or control column of an array of rows
SignalColumn(rows) == [i \in 1..Len(rows) |-> rows[i].sample]

\* the session: a recording of MaxLen samples, a gap, a recording of one sample
Session == <<TimeArray(MaxLen, 0, 1), TimeArray(1, MaxLen + 1, 1)>>

----------------------------------------------------------------------------
(* The behavioral-data collaborator (behavioral_data.BehavioralData).      *)

\* the event times of the session: inside both recordings and in the gap
\* between them
EventTimes == 0..(MaxLen + 1)

\* [first - pre, last + post] lies in one recording
Recorded(recordings, first, final, window) ==
    \E r \in 1..Len(recordings) :
        /\ recordings[r][1] <= first - window[1]
        /\ final + window[2] <= recordings[r][Len(recordings[r])]

\* self.behavior.events(recorded=True, window=window): the event times whose
\* window falls within a recording
events(recordings, window) ==
    {t \in EventTimes : Recorded(recordings, t, t, window)}

\* self.behavior.intervals(recorded=True, window=window): the intervals
\* between consecutive events that fall, with the window, within a recording
intervals(recordings, window) ==
    {<<t, t + 1>> : t \in {u \in EventTimes : Recorded(recordings, u, u + 1, window)}}

----------------------------------------------------------------------------
(* RatSession.analyze_perievent.                                           *)

\* the windows passed to update_window
DefaultWindows == {<<MaxWin, MaxWin>>, <<0, MaxWin>>}

Norms == {"default", "F", "Z", "raw", "X"}

Windows == (0..MaxWin) \X (0..MaxWin)

\* the windows passed to analyze_perievent
SessionWindows == {0, MaxWin} \X {0, MaxWin}

\* the selectors the code accepts
NormalisationNames ==
    [default |-> "default_norm", F |-> "delta F/F", Z |-> "Z-scores"]

MsgNorm == "Invalid choice for signal normalisation !"

MsgRec == "No fiber recording at this timestamp"

\* the key without the window
key_without_window(rec_number, event_time, window) ==
    "rec" \o ToString(rec_number) \o "_" \o ToString(event_time)

\* f'rec{res.rec_number}_{res.event_time}_{res.window}'
CacheKey(rec_number, event_time, window) ==
    "rec" \o ToString(rec_number) \o "_" \o ToString(event_time) \o "_"
        \o "(" \o ToString(window[1]) \o ", " \o ToString(window[2]) \o ")"

\* arr[end_idx-event_idx+1:]
post_skipping_one(arr, event_idx, end_idx) ==
    PyFrom(arr, end_idx - event_idx + 1)

\* arr[:end_idx-event_idx]
PreSegment(arr, event_idx, end_idx) == PySlice(arr, 0, end_idx - event_idx)

\* arr[end_idx-event_idx:]
PostSegment(arr, event_idx, end_idx) == PyFrom(arr, end_idx - event_idx)

\* 1/np.diff(res.time).mean() as <<numerator, denominator>>; <<0, 0>> is nan
SamplingRate(time) ==
    IF Len(time) < 2 THEN <<0, 0>>
    ELSE <<Len(time) - 1, time[Len(time)] - time[1]>>

\* the Analysis object built by lines 48-91 (the scalar means and areas of
\* lines 92-103 are functions of these arrays and carry no further state)
AnalysisObject(id, recordings, event_time, window, norm, rec_number, idx) ==
    LET recordingdata == norm_rows(recordings, rec_number, norm)
        rawdata       == norm_rows(recordings, rec_number, "raw")
        start_idx     == idx[1]
        event_idx     == idx[2]
        end_idx       == idx[3]
        data          == PySlice(recordingdata, start_idx, end_idx + 1)
        raw_signal    == SignalColumn(PySlice(rawdata, start_idx, end_idx + 1))
        raw_control   == SignalColumn(PySlice(rawdata, start_idx, end_idx + 1))
        signal        == SignalColumn(data)
        time          == TimeColumn(data)
        preevent      == SignalColumn(PreSegment(data, event_idx, end_idx))
        zscores       == signal
        rob_zscores   == signal
    IN  [id            |-> id,
         event_time    |-> event_time,
         normalisation |-> NormalisationNames[norm],
         rec_number    |-> rec_number,
         window        |-> window,
         raw_signal    |-> raw_signal,
         raw_control   |-> raw_control,
         signal        |-> signal,
         time          |-> time,
         sampling_rate |-> SamplingRate(time),
         postevent     |-> SignalColumn(PostSegment(data, event_idx, end_idx)),
         pre_raw_sig   |-> PreSegment(raw_signal, event_idx, end_idx),
         post_raw_sig  |-> PostSegment(raw_signal, event_idx, end_idx),
         post_raw_ctrl |-> PostSegment(raw_control, event_idx, end_idx),
         post_time     |-> TimeColumn(PostSegment(data, event_idx, end_idx)),
         preevent      |-> preevent,
         pre_time      |-> TimeColumn(PreSegment(data, event_idx, end_idx)),
         zscores       |-> zscores,
         pre_zscores   |-> PreSegment(zscores, event_idx, end_idx),
         post_zscores  |-> PostSegment(zscores, event_idx, end_idx),
         rob_zscores   |-> rob_zscores,
         pre_Rzscores  |-> PreSegment(rob_zscores, event_idx, end_idx),
         post_Rzscores |-> PostSegment(rob_zscores, event_idx, end_idx)]

\* integrate.simpson and the statistics of lines 86-103 are defined on
\* segments of at least 3 samples; on a shorter (or empty) segment the
\* installed scipy/numpy either raises or returns a value
StatisticsMayRaise(res) == Len(res.pre_time) < 3 \/ Len(res.post_time) < 3

\* the outcome of one call: what it returns, prints or raises, the locals it
\* reached and the object it built
Perievent(id, recordings, dflt, event_time, window, norm, collabOK, libOK) ==
    LET none(msg) == [ret |-> "None", printed |-> msg, raised |-> "",
                      recs |-> <<>>, idx |-> <<>>, res |-> <<>>]
        recs      == _find_rec(recordings, event_time)
        w         == IF window = "default" THEN dflt ELSE window
        rows      == norm_rows(recordings, recs[1], norm)
        idx       == _sample(TimeColumn(rows), event_time, w)
        res       == AnalysisObject(id, recordings, event_time, w, norm, recs[1], idx)
    IN  IF norm \notin DOMAIN NormalisationNames THEN none(MsgNorm)
        ELSE IF recs = <<>> THEN none(MsgRec)
        ELSE IF norm = "default" /\ ~collabOK
             THEN [ret |-> "raised", printed |-> "", raised |-> "fiber.norm",
                   recs |-> recs, idx |-> <<>>, res |-> <<>>]
        ELSE IF StatisticsMayRaise(res) /\ ~libOK
             THEN [ret |-> "raised", printed |-> "", raised |-> "statistics",
                   recs |-> recs, idx |-> idx, res |-> <<>>]
        ELSE [ret |-> "result", printed |-> "", raised |-> "",
              recs |-> recs, idx |-> idx, res |-> <<res>>]

\* a partial entry written as soon as the object is sliced, before the
\* statistics
cache_before_statistics(cache, out, event_time, window) ==
    IF out.idx # <<>>
    THEN LET key == CacheKey(out.recs[1], event_time, window)
         IN  [k \in DOMAIN cache \cup {key} |->
                 IF k = key THEN [id |-> 0] ELSE cache[k]]
    ELSE cache

\* self.analyses after the call: line 104 is reached only by a call that
\* returns its result
CacheAfter(cache, out, event_time, window) ==
    IF out.ret = "result"
    THEN LET key == CacheKey(out.res[1].rec_number, out.res[1].event_time,
                             out.res[1].window)
         IN  [k \in DOMAIN cache \cup {key} |->
                 IF k = key THEN out.res[1] ELSE cache[k]]
    ELSE cache

NoCall == [event_time |-> 0, window |-> "default", norm |-> "", ret |-> "",
           printed |-> "", raised |-> "", recs |-> <<>>, idx |-> <<>>,
           res |-> <<>>]

analyze_perievent(event_time, window, norm) ==
    /\ nextId < MaxCalls
    /\ \E collabOK \in BOOLEAN, libOK \in BOOLEAN :
          \E out \in {Perievent(nextId, fiber, default_window, event_time,
                                window, norm, collabOK, libOK)},
             w \in {IF window = "default" THEN default_window ELSE window} :
              /\ analyses' = CacheAfter(analyses, out, event_time, w)
              /\ last' = [event_time |-> event_time, window |-> window,
                          norm |-> norm, ret |-> out.ret,
                          printed |-> out.printed, raised |-> out.raised,
                          recs |-> out.recs, idx |-> out.idx, res |-> out.res]
              /\ history' =
                    IF out.ret = "result"
                    THEN LET t == <<out.recs[1], event_time, w>>
                         IN  [u \in DOMAIN history \cup {t} |->
                                 IF u # t THEN history[u]
                                 ELSE IF t \in DOMAIN history
                                      THEN Append(history[t], nextId)
                                      ELSE <<nextId>>]
                    ELSE history
    /\ nextId' = nextId + 1
    /\ UNCHANGED <<fiber, default_window, analyzable_events, recorded_intervals,
                   sampled, smoothed>>

\* RatSession.update_window
update_window(new_window) ==
    /\ default_window' = new_window
    /\ analyzable_events' = events(fiber, new_window)
    /\ recorded_intervals' = intervals(fiber, new_window)
    /\ UNCHANGED <<fiber, analyses, nextId, last, history, sampled, smoothed>>

----------------------------------------------------------------------------
(* A direct call of RatSession._sample.                                    *)

NoSample == [time_array |-> <<>>, event_time |-> 0, window |-> <<0, 0>>,
             out |-> <<>>]

\* the elements of a set of integers in increasing order
Increasing(S) ==
    [i \in 1..Cardinality(S) |->
        CHOOSE x \in S : Cardinality({y \in S : y < x}) = i - 1]

\* the non-empty, strictly increasing time arrays over 0..MaxTick
TimeArrays == {Increasing(S) : S \in (SUBSET (0..MaxTick)) \ {{}}}

\* the call whose arguments are pending in `sampled`
Sample ==
    /\ sampled.time_array # <<>>
    /\ sampled.out = <<>>
    /\ sampled' = [sampled EXCEPT !.out =
                      _sample(sampled.time_array, sampled.event_time, sampled.window)]
    /\ UNCHANGED <<fiber, default_window, analyzable_events, recorded_intervals,
                   analyses, nextId, last, history, smoothed>>

----------------------------------------------------------------------------
(* Analysis.smooth.                                                        *)

NoSmooth == [called |-> FALSE, pending |-> FALSE]

polyorder == 3

\* the durations of the 'ms' strings passed as window
Milliseconds == {100, 250, 500, 1000}

\* the window arguments: an integer, '<d>ms', 'default', another string
SmoothWindows ==
    [kind : {"int"}, n : 1..MaxSmoothWin]
        \cup [kind : {"ms"}, n : Milliseconds]
        \cup [kind : {"default", "str"}, n : {0}]

Methods == {"savgol", "rolling", "other"}

\* lines 178-182: the window after the string forms are resolved; a string
\* that is neither '<d>ms' nor 'default' is left as it is
ResolveWindow(window, sampling_rate) ==
    CASE window.kind = "ms"      -> [kind |-> "int", n |-> Ceil(window.n * sampling_rate, 1000)]
      [] window.kind = "default" -> [kind |-> "int", n |-> Ceil(sampling_rate, 4)]
      [] OTHER                   -> window

\* the window passed on as it is
window_unchanged(w) == w

\* line 184: if window%2 == 0: window += 1
OddWindow(w) == IF w % 2 = 0 THEN w + 1 ELSE w

\* signal.savgol_filter(data, window, polyorder): an array as long as data;
\* it raises unless polyorder < window <= len(data)
savgol_filter(data_len, w, order) ==
    IF order < w /\ w <= data_len
    THEN [ret |-> "array", len |-> data_len]
    ELSE [ret |-> "raised", len |-> 0]

\* pd.Series(data).rolling(window=window).mean().iloc[window-1:].values
rolling_mean(data_len, w) ==
    [ret |-> "array", len |-> IF w <= data_len THEN data_len - w + 1 ELSE 0]

\* the outcome of smooth on a series of data_len samples: what the filter was
\* handed, and what is returned
SmoothOutcome(sampling_rate, data_len, method, window, add_time) ==
    LET rw == ResolveWindow(window, sampling_rate)
        none == [ret |-> "raised", filter_window |-> 0, len |-> 0, with_time |-> FALSE]
    IN  IF method = "other" \/ rw.kind # "int" THEN none
        ELSE IF method = "savgol"
        THEN LET f == savgol_filter(data_len, OddWindow(rw.n), polyorder)
             IN  [ret |-> f.ret, filter_window |-> OddWindow(rw.n), len |-> f.len,
                  with_time |-> f.ret = "array" /\ add_time]
        ELSE LET r == rolling_mean(data_len, rw.n)
             IN  [ret |-> r.ret, filter_window |-> rw.n, len |-> r.len,
                  with_time |-> add_time]

\* the call whose arguments are pending in `smoothed`
smooth ==
    /\ smoothed.pending
    /\ smoothed' = [called |-> TRUE, pending |-> FALSE, args |-> smoothed.args,
                    out |-> SmoothOutcome(smoothed.args.sampling_rate,
                                          smoothed.args.data_len, smoothed.args.method,
                                          smoothed.args.window, smoothed.args.add_time)]
    /\ UNCHANGED <<fiber, default_window, analyzable_events, recorded_intervals,
                   analyses, nextId, last, history, sampled>>

----------------------------------------------------------------------------
(* Specifications.                                                         *)

\* the session after RatSession.__init__
SessionInit ==
    /\ fiber = Session
    /\ default_window = <<MaxWin, MaxWin>>
    /\ analyzable_events = events(Session, <<MaxWin, MaxWin>>)
    /\ recorded_intervals = intervals(Session, <<MaxWin, MaxWin>>)
    /\ analyses = <<>>
    /\ nextId = 0
    /\ last = NoCall
    /\ history = <<>>

Init ==
    /\ SessionInit
    /\ sampled = NoSample
    /\ smoothed = NoSmooth

Next ==
    \/ \E event_time \in EventTimes, window \in SessionWindows \cup {"default"},
          norm \in Norms : analyze_perievent(event_time, window, norm)
    \/ \E new_window \in DefaultWindows : update_window(new_window)

Spec == Init /\ [][Next]_vars

\* _sample applied to every bounded input
InitSample ==
    /\ SessionInit
    /\ smoothed = NoSmooth
    /\ sampled \in [time_array : TimeArrays,
                    event_time : (0 - 1)..(MaxTick + 1),
                    window : Windows, out : {<<>>}]

SpecSample == InitSample /\ [][Sample]_vars

\* smooth applied to every bounded input
InitSmooth ==
    /\ SessionInit
    /\ sampled = NoSample
    /\ smoothed \in [called : {FALSE}, pending : {TRUE},
                     args : [sampling_rate : 1..MaxRate, data_len : 1..MaxData,
                             method : Methods, window : SmoothWindows,
                             add_time : BOOLEAN]]

SpecSmooth == InitSmooth /\ [][smooth]_vars

----------------------------------------------------------------------------
(* Properties of _sample (SpecSample).                                     *)

SampleDone == sampled.out # <<>>

\* the target times of the three indices
Targets ==
    <<sampled.event_time - sampled.window[1], sampled.event_time,
      sampled.event_time + sampled.window[2]>>

\* the distance of the sample at 0-based index i from a target
Dist(i, target) == Abs(sampled.time_array[i + 1] - target)

\* C1: for a non-empty strictly increasing time array and a window of
\* non-negative durations, the returned triple satisfies
\* start_idx <= event_idx <= end_idx and each is a valid index of the array.
C1_Ordered ==
    SampleDone =>
        /\ sampled.out[1] <= sampled.out[2]
        /\ sampled.out[2] <= sampled.out[3]
        /\ \A k \in 1..3 : sampled.out[k] \in 0..(Len(sampled.time_array) - 1)

\* the three indices are distinct and the window reaches both edges' targets
\* outside the array
C1_Witness ==
    /\ SampleDone
    /\ sampled.out[1] < sampled.out[2]
    /\ sampled.out[2] < sampled.out[3]
    /\ Targets[1] < sampled.time_array[1]
    /\ Targets[3] > sampled.time_array[Len(sampled.time_array)]

\* C7: each returned index is at minimum absolute difference from its
\* target; among equally near samples start_idx is the lowest index and
\* end_idx the highest.
C7_Nearest ==
    SampleDone =>
        LET I == 0..(Len(sampled.time_array) - 1)
        IN  /\ \A k \in 1..3 : \A j \in I :
                  Dist(sampled.out[k], Targets[k]) <= Dist(j, Targets[k])
            /\ \A j \in I :
                  Dist(j, Targets[1]) = Dist(sampled.out[1], Targets[1])
                      => sampled.out[1] <= j
            /\ \A j \in I :
                  Dist(j, Targets[3]) = Dist(sampled.out[3], Targets[3])
                      => j <= sampled.out[3]

\* two samples are equally near the start target and two equally near the
\* end target
C7_Witness ==
    /\ SampleDone
    /\ \E j \in 0..(Len(sampled.time_array) - 1) :
          j # sampled.out[1] /\ Dist(j, Targets[1]) = Dist(sampled.out[1], Targets[1])
    /\ \E j \in 0..(Len(sampled.time_array) - 1) :
          j # sampled.out[3] /\ Dist(j, Targets[3]) = Dist(sampled.out[3], Targets[3])

----------------------------------------------------------------------------
(* Properties of smooth (SpecSmooth).                                      *)

\* the window of the call once its string forms are resolved
Resolved == ResolveWindow(smoothed.args.window, smoothed.args.sampling_rate)

SavgolCall ==
    /\ smoothed.called
    /\ smoothed.args.method = "savgol"
    /\ smoothed.args.window.kind \in {"int", "ms", "default"}

\* C9: for the savgol method the window handed to the filter is always odd:
\* an odd window is passed unchanged, an even window w is passed as w + 1,
\* and a call with an even integer w has the outcome of the call with w + 1.
C9_OddWindow ==
    SavgolCall =>
        /\ smoothed.out.filter_window % 2 = 1
        /\ Resolved.n % 2 = 1 => smoothed.out.filter_window = Resolved.n
        /\ Resolved.n % 2 = 0 => smoothed.out.filter_window = Resolved.n + 1
        /\ (smoothed.args.window.kind = "int" /\ smoothed.args.window.n % 2 = 0)
              => smoothed.out =
                    SmoothOutcome(smoothed.args.sampling_rate, smoothed.args.data_len,
                                  "savgol",
                                  [kind |-> "int", n |-> smoothed.args.window.n + 1],
                                  smoothed.args.add_time)

\* a duration string resolved to an even window, filtered successfully
C9_Witness ==
    /\ SavgolCall
    /\ smoothed.args.window.kind = "ms"
    /\ Resolved.n % 2 = 0
    /\ smoothed.out.ret = "array"

----------------------------------------------------------------------------
(* Properties of analyze_perievent and the cache (Spec).                   *)

Called == last.ret # ""

Returned == last.ret = "result"

\* the locals of the last call that reached _sample
StartIdx == last.idx[1]

EventIdx == last.idx[2]

EndIdx == last.idx[3]

\* no recording of the session spans the event time of the last call
NoRecordingAt(t) ==
    \A r \in 1..Len(fiber) : t < fiber[r][1] \/ t > fiber[r][Len(fiber[r])]

\* C2: the window sliced at [start_idx, end_idx] is split at offset
\* event_idx - start_idx: the pre-event segment is the samples before the
\* offset, the post-event segment the samples from it on, so the first
\* post-event sample is the event sample.
C2_SplitAtEvent ==
    Returned =>
        LET r == last.res[1]
            offset == EventIdx - StartIdx
        IN  /\ r.preevent = PySlice(r.signal, 0, offset)
            /\ r.postevent = PyFrom(r.signal, offset)
            /\ r.postevent[1] = EventIdx

\* C3: a call whose event time no recording contains fails with a
\* RecordingNotFound error; it never returns None and never goes on with a
\* recording index.
C3_RecordingNotFound ==
    (Called /\ last.norm \in DOMAIN NormalisationNames /\ NoRecordingAt(last.event_time))
        => /\ last.ret = "raised"
           /\ last.raised = "RecordingNotFound"

\* C4: the call fails with an InvalidNormalization error exactly when the
\* selector is not one of raw, F, Z.
C4_InvalidNormalization ==
    Called =>
        ((last.ret = "raised" /\ last.raised = "InvalidNormalization")
            <=> last.norm \notin {"raw", "F", "Z"})

\* C5: a call that does not return a result (invalid selector, no recording,
\* a failure of the collaborator or of the statistics) leaves the cache as
\* it was before the call.
C5_FailedCallKeepsCache ==
    [][(nextId' = nextId + 1 /\ last'.ret # "result") => analyses' = analyses]_vars

\* a call fails in the statistics after an earlier call was cached
C5_Witness ==
    /\ last.raised = "statistics"
    /\ analyses # <<>>

\* the keys of the calls that returned a result
SuccessfulKeys == {CacheKey(t[1], t[2], t[3]) : t \in DOMAIN history}

\* C6: every call that returns a result is a fresh object stored under the
\* key of (recording index, event time, window); the cache holds exactly one
\* entry per distinct (recording index, event time, window) among those
\* calls, the result of the most recent of them.
C6_CachePerKey ==
    /\ DOMAIN analyses = SuccessfulKeys
    /\ Cardinality(DOMAIN analyses) = Cardinality(DOMAIN history)
    /\ \A t \in DOMAIN history :
          LET e == analyses[CacheKey(t[1], t[2], t[3])]
          IN  /\ e.id = history[t][Len(history[t])]
              /\ <<e.rec_number, e.event_time, e.window>> = t
    /\ Returned =>
          /\ last.res[1].id = nextId - 1
          /\ analyses[CacheKey(last.res[1].rec_number, last.res[1].event_time,
                               last.res[1].window)] = last.res[1]

\* one key was computed twice, the second time as Z-scores and through the
\* default window
C6_Witness ==
    /\ Returned
    /\ last.window = "default"
    /\ \E t \in DOMAIN history : Len(history[t]) = 2
    /\ last.res[1].normalisation = "Z-scores"

\* the statistics of the last call ran on a segment of fewer than 3 samples
ShortSegment ==
    /\ last.idx # <<>>
    /\ (EndIdx - EventIdx < 3 \/ EventIdx - StartIdx + 1 < 3)

\* C8: when the pre-event or post-event segment has fewer than 3 samples the
\* call fails with an InsufficientSamples error.
C8_InsufficientSamples ==
    ShortSegment =>
        /\ last.ret = "raised"
        /\ last.raised = "InsufficientSamples"

\* the results held by the session: the cache entries and the last return
Results == {analyses[k] : k \in DOMAIN analyses} \cup {last.res[i] : i \in DOMAIN last.res}

\* C10: in every result all representations and the time axis are split at
\* the same offset: each pre segment is as long as pre_time, each post
\* segment as long as post_time, and pre followed by post is the sliced
\* window of end_idx - start_idx + 1 samples.
C10_SharedSplit ==
    /\ \A r \in Results :
          /\ \A pre \in {r.pre_raw_sig, r.preevent, r.pre_zscores, r.pre_Rzscores} :
                Len(pre) = Len(r.pre_time)
          /\ \A post \in {r.post_raw_sig, r.postevent, r.post_zscores, r.post_Rzscores} :
                Len(post) = Len(r.post_time)
          /\ r.pre_raw_sig \o r.post_raw_sig = r.raw_signal
          /\ r.preevent \o r.postevent = r.signal
          /\ r.pre_zscores \o r.post_zscores = r.zscores
          /\ r.pre_Rzscores \o r.post_Rzscores = r.rob_zscores
          /\ r.pre_time \o r.post_time = r.time
    /\ Returned =>
          LET r == last.res[1]
              window == [i \in 1..(EndIdx - StartIdx + 1) |-> StartIdx + i - 1]
          IN  /\ r.raw_signal = window
              /\ r.signal = window
              /\ r.zscores = window
              /\ r.rob_zscores = window
              /\ r.time = [i \in 1..Len(window) |-> fiber[r.rec_number][window[i] + 1]]

\* a result whose two segments have at least 3 samples each and differ in
\* length
C10_Witness ==
    /\ Returned
    /\ Len(last.res[1].pre_time) >= 3
    /\ Len(last.res[1].post_time) >= 3
    /\ Len(last.res[1].pre_time) # Len(last.res[1].post_time)

====
